---- MODULE Spec2Model ----
(***************************************************************************)
(* A model of GlueTexture (src/src/GlueTexture.ts) and of the source       *)
(* adapter it consumes (src/src/GlueUtils.ts): the texture / program       *)
(* compositing pipeline of fxGlue.                                         *)
(*                                                                         *)
(* Optional JavaScript arguments are sequences of length at most one:      *)
(* <<>> is undefined, <<v>> is the value v.                                *)
(***************************************************************************)
EXTENDS Integers, Sequences, FiniteSets, TLC

VARIABLES
    sources,      \* the DOM state of every visual source (environment)
    glActive,     \* WebGL: the active texture unit
    glBound,      \* WebGL: texture unit -> bound texture handle (0 = null)
    glTextures,   \* WebGL: texture handle -> "free" | "live" | "deleted"
    glPixels,     \* WebGL: texture handle -> the pixel data last uploaded
    programs,     \* every GlueProgram built so far, indexed by identity
    constructed,  \* per GlueTexture object: "none" | "live" | "failed"
    _source,      \* GlueTexture._source
    _width,       \* GlueTexture._width
    _height,      \* GlueTexture._height
    _disposed,    \* GlueTexture._disposed
    _texture,     \* GlueTexture._texture
    _programs,    \* GlueTexture._programs (own properties: name -> identity)
    _imports,     \* GlueTexture._imports  (own properties: name -> source)
    userCalls,    \* number of registerProgram calls made by callers so far
    last          \* the most recent call: operation, arguments, outcome

vars == <<sources, glActive, glBound, glTextures, glPixels, programs,
          constructed, _source, _width, _height, _disposed, _texture,
          _programs, _imports, userCalls, last>>

glVars == <<glActive, glBound, glTextures, glPixels>>
fieldVars == <<_source, _width, _height, _disposed, _texture>>

-----------------------------------------------------------------------------
(* Bounds *)

\* Callers make at most this many registerProgram calls.
MaxUserCalls == 2

-----------------------------------------------------------------------------
(* Optional values and JavaScript truthiness *)

None == <<>>
Some(v) == <<v>>

\* A destructuring default (x = 0): used only when the argument is undefined.
OrDefault(o, d) == IF o = None THEN d ELSE o[1]

\* Truthiness of an optional number: undefined and 0 are falsy.
TruthyNumber(o) == o # None /\ o[1] # 0

\* Truthiness of an optional string: undefined and "" are falsy.
TruthyString(o) == o # None /\ o[1] # ""

-----------------------------------------------------------------------------
(* Sources (HTMLImageElement, HTMLVideoElement, HTMLCanvasElement, and an  *)
(* object of another class typed as GlueSourceType)                        *)

Sources == {"img", "vid", "cnv", "obj"}

ImageStates == {
    [kind |-> "image", complete |-> FALSE, naturalWidth |-> 0, naturalHeight |-> 0],
    [kind |-> "image", complete |-> TRUE, naturalWidth |-> 200, naturalHeight |-> 100] }

VideoStates == {
    [kind |-> "video", readyState |-> 2, videoWidth |-> 40, videoHeight |-> 20],
    [kind |-> "video", readyState |-> 3, videoWidth |-> 40, videoHeight |-> 20] }

CanvasStates == {
    [kind |-> "canvas", width |-> 200, height |-> 100],
    [kind |-> "canvas", width |-> 0, height |-> 50] }

OtherStates == { [kind |-> "other", width |-> 8, height |-> 8] }

SourceStates(s) ==
    CASE s = "img" -> ImageStates
      [] s = "vid" -> VideoStates
      [] s = "cnv" -> CanvasStates
      [] s = "obj" -> OtherStates

\* The pixel dimensions of the data texImage2D reads from a source.
PixelDimensions(d) ==
    CASE d.kind = "image" -> <<d.naturalWidth, d.naturalHeight>>
      [] d.kind = "video" -> <<d.videoWidth, d.videoHeight>>
      [] OTHER -> <<d.width, d.height>>

\* glueIsSourceLoaded(source); o is the optional source argument.
glueIsSourceLoaded(o) ==
    IF o = None THEN FALSE
    ELSE LET d == sources[o[1]] IN
         CASE d.kind = "image" -> d.complete /\ d.naturalHeight > 0
           [] d.kind = "video" -> d.readyState > 2
           [] OTHER -> TRUE

\* glueGetSourceDimensions(source): [err, dims].
glueGetSourceDimensions(s) ==
    LET d == sources[s] IN
    CASE d.kind = "image" ->
           [err |-> "none", dims |-> <<d.naturalWidth, d.naturalHeight>>]
      [] d.kind = "video" ->
           [err |-> "none", dims |-> <<d.videoWidth, d.videoHeight>>]
      [] d.kind = "canvas" ->
           [err |-> "none", dims |-> <<d.width, d.height>>]
      [] OTHER ->
           [err |-> "UnsupportedSourceType", dims |-> <<0, 0>>]

-----------------------------------------------------------------------------
(* The WebGL context shared by every GlueTexture of one Glue instance      *)

Textures == {"T1", "T2"}
Handles == 1 .. Cardinality(Textures)
Units == {"TEXTURE0", "TEXTURE1", "TEXTURE2"}

NoPixels == [source |-> "none", size |-> <<0, 0>>]

\* The context as one value, so that a method's GL commands compose in order.
GL == [active |-> glActive, bound |-> glBound,
       textures |-> glTextures, pixels |-> glPixels]

\* gl.activeTexture(unit)
activeTexture(g, unit) == [g EXCEPT !.active = unit]

\* gl.bindTexture(gl.TEXTURE_2D, h): binding a deleted texture is an
\* INVALID_OPERATION that leaves the binding untouched.
bindTexture(g, h) ==
    IF h # 0 /\ g.textures[h] # "live" THEN g
    ELSE [g EXCEPT !.bound[g.active] = h]

\* gl.texImage2D(gl.TEXTURE_2D, 0, RGBA, RGBA, UNSIGNED_BYTE, source): writes
\* the texture bound to the active unit; INVALID_OPERATION when none is bound.
texImage2D(g, s) ==
    LET h == g.bound[g.active] IN
    IF h = 0 THEN g
    ELSE [g EXCEPT !.pixels[h] =
             [source |-> s, size |-> PixelDimensions(sources[s])]]

\* gl.deleteTexture(h): releases the storage and resets every binding of h.
deleteTexture(g, h) ==
    IF h = 0 \/ g.textures[h] # "live" THEN g
    ELSE [g EXCEPT !.textures[h] = "deleted",
                   !.pixels[h] = NoPixels,
                   !.bound = [u \in Units |->
                                 IF g.bound[u] = h THEN 0 ELSE g.bound[u]]]

\* The record of one texImage2D command: the texture it wrote (0 = none).
UploadOf(g, s) ==
    [texture |-> g.bound[g.active], source |-> s,
     size |-> PixelDimensions(sources[s])]

\* glue._createTexture(target): allocates a texture and binds it to target.
FreshHandle(g) == CHOOSE h \in Handles :
    /\ g.textures[h] = "free"
    /\ \A k \in Handles : g.textures[k] = "free" => h <= k

glue_createTexture(g, target) ==
    LET h == FreshHandle(g)
        g1 == [g EXCEPT !.textures[h] = "live"]
    IN [gl |-> bindTexture(activeTexture(g1, target), h), handle |-> h]

-----------------------------------------------------------------------------
(* GlueShaderSources and GlueProgram                                       *)

\* Object.values(GlueBlendMode), in declaration order.
GlueBlendMode == <<"normal", "multiply">>
GlueBlendMode_NORMAL == GlueBlendMode[1]

defaultFragmentShader == "defaultFragmentShader"
defaultVertexShader == "defaultVertexShader"
blendFragmentShaders(mode) == "blendFragmentShader_" \o mode

\* new GlueProgram(gl, glue, fragmentShader, vertexShader, imports): the
\* shaders are preprocessed with the import table as it is at this moment.
NewGlueProgram(fs, vs, imports) ==
    [fragmentShader |-> fs, vertexShader |-> vs,
     imports |-> imports, disposed |-> FALSE]

\* GlueProgram.apply(uniforms, mask): one dispatch of program p.
Dispatch(p, uniforms, mask) ==
    [program |-> p, uniforms |-> uniforms, mask |-> mask]

\* GlueProgram.dispose()
DisposeProgram(heap, p) == [heap EXCEPT ![p].disposed = TRUE]

-----------------------------------------------------------------------------
(* Plain JavaScript objects used as string-keyed maps                      *)

EmptyObject == [n \in {} |-> 0]

\* Properties every {} inherits from Object.prototype.
ObjectPrototypeKeys == {"toString", "valueOf", "constructor", "hasOwnProperty"}

\* obj[name]
GetProperty(obj, name) ==
    IF name \in DOMAIN obj THEN [kind |-> "own", value |-> obj[name]]
    ELSE IF name \in ObjectPrototypeKeys THEN [kind |-> "inherited", value |-> 0]
    ELSE [kind |-> "undefined", value |-> 0]

Truthy(v) == v.kind # "undefined"

\* obj[name] = value
SetProperty(obj, name, value) ==
    [n \in DOMAIN obj \cup {name} |-> IF n = name THEN value ELSE obj[n]]

\* delete obj[name]
DeleteProperty(obj, name) == [n \in DOMAIN obj \ {name} |-> obj[n]]

-----------------------------------------------------------------------------
(* GlueTexture: helpers shared by its methods                              *)

\* The outcome of one call, as the caller and the GPU see it.
Call(op, t, args, err, result, dispatches, uploads) ==
    [op |-> op, t |-> t, args |-> args, err |-> err, result |-> result,
     dispatches |-> dispatches, uploads |-> uploads]

\* checkDisposed(): the error it throws, if any.
checkDisposed(t) == IF _disposed[t] THEN "Disposed" ELSE "none"

\* Mutant: the duplicate test is missing.
IsRegisteredNever(map, name) == FALSE

\* The duplicate test of registerProgram: if (this._programs[name]).
IsRegistered(map, name) == Truthy(GetProperty(map, name))

\* fragmentShader || defaultFragmentShader
ShaderOr(o, d) == IF TruthyString(o) THEN o[1] ELSE d

\* The body of registerProgram after checkDisposed, on a registry
\* r = [map, heap, err]: the name -> identity map and the program heap.
registerProgramBody(r, imports, name, fs, vs) ==
    IF r.err # "none" THEN r
    ELSE IF IsRegistered(r.map, name) THEN [r EXCEPT !.err = "DuplicateName"]
    ELSE LET p == NewGlueProgram(ShaderOr(fs, defaultFragmentShader),
                                 ShaderOr(vs, defaultVertexShader), imports)
         IN [map |-> SetProperty(r.map, name, Len(r.heap) + 1),
             heap |-> Append(r.heap, p),
             err |-> "none"]

\* Mutant: the loop stops one blend mode early.
RECURSIVE registerBlendProgramsOffByOne(_, _, _)
registerBlendProgramsOffByOne(r, imports, i) ==
    IF i >= Len(GlueBlendMode) THEN r
    ELSE registerBlendProgramsOffByOne(
             registerProgramBody(r, imports, "~blend_" \o GlueBlendMode[i],
                                 Some(blendFragmentShaders(GlueBlendMode[i])), None),
             imports, i + 1)

\* The constructor's loop over Object.values(GlueBlendMode), from index i.
RECURSIVE registerBlendPrograms(_, _, _)
registerBlendPrograms(r, imports, i) ==
    IF i > Len(GlueBlendMode) THEN r
    ELSE registerBlendPrograms(
             registerProgramBody(r, imports, "~blend_" \o GlueBlendMode[i],
                                 Some(blendFragmentShaders(GlueBlendMode[i])), None),
             imports, i + 1)

-----------------------------------------------------------------------------
(* new GlueTexture(gl, glue, source)                                       *)

\* Mutant: only a missing source is rejected, not one that is still loading.
constructErrorNullOnly(o) == IF o = None THEN "SourceNotReady" ELSE "none"

\* The error the constructor throws before it touches the GPU, if any.
constructError(o) == IF ~glueIsSourceLoaded(o) THEN "SourceNotReady" ELSE "none"

Construct(t, o) ==
    /\ constructed[t] = "none"
    /\ IF constructError(o) # "none"
       THEN /\ constructed' = [constructed EXCEPT ![t] = "failed"]
            /\ last' = Call("new", t, [source |-> o], constructError(o), None, <<>>, <<>>)
            /\ UNCHANGED <<glVars, programs, fieldVars, _programs, _imports>>
       ELSE LET s == o[1]
                c == glue_createTexture(GL, "TEXTURE1")
                g == texImage2D(c.gl, s)
                r0 == [map |-> EmptyObject, heap |-> programs, err |-> "none"]
                r1 == registerProgramBody(r0, EmptyObject, "~default", None, None)
                r == registerBlendPrograms(r1, EmptyObject, 1)
                d == glueGetSourceDimensions(s)
                err == IF r.err # "none" THEN r.err ELSE d.err
                def == GetProperty(r.map, "~default")
            IN /\ glActive' = g.active
               /\ glBound' = g.bound
               /\ glTextures' = g.textures
               /\ glPixels' = g.pixels
               /\ programs' = r.heap
               /\ IF err # "none"
                  THEN /\ constructed' = [constructed EXCEPT ![t] = "failed"]
                       /\ last' = Call("new", t, [source |-> o], err, None,
                                       <<>>, <<UploadOf(c.gl, s)>>)
                       /\ UNCHANGED <<fieldVars, _programs, _imports>>
                  ELSE /\ constructed' = [constructed EXCEPT ![t] = "live"]
                       /\ _source' = [_source EXCEPT ![t] = s]
                       /\ _texture' = [_texture EXCEPT ![t] = c.handle]
                       /\ _width' = [_width EXCEPT ![t] = d.dims[1]]
                       /\ _height' = [_height EXCEPT ![t] = d.dims[2]]
                       /\ _programs' = [_programs EXCEPT ![t] = r.map]
                       /\ last' = Call("new", t, [source |-> o], "none", None,
                                       IF Truthy(def)
                                       THEN <<Dispatch(def.value, None, None)>>
                                       ELSE <<>>,
                                       <<UploadOf(c.gl, s)>>)
                       /\ UNCHANGED <<_disposed, _imports>>
    /\ UNCHANGED <<sources, userCalls>>

-----------------------------------------------------------------------------
(* The environment: a source loads, buffers, or is resized                 *)

SourceChange(s, d) ==
    /\ d \in SourceStates(s)
    /\ d # sources[s]
    /\ sources' = [sources EXCEPT ![s] = d]
    /\ last' = Call("env", "", [source |-> Some(s)], "none", None, <<>>, <<>>)
    /\ UNCHANGED <<glVars, programs, constructed, fieldVars, _programs,
                   _imports, userCalls>>

-----------------------------------------------------------------------------
(* draw(options)                                                           *)

RECURSIVE GCD(_, _)
GCD(a, b) == IF b = 0 THEN a ELSE GCD(b, a % b)

Abs(a) == IF a < 0 THEN -a ELSE a

\* The JavaScript quotient a / b of two integers, as a fraction in lowest
\* terms with a positive denominator; a denominator of 0 is +Infinity
\* (num = 1), -Infinity (num = -1) or NaN (num = 0).
JsDivide(a, b) ==
    IF b = 0 THEN [num |-> IF a > 0 THEN 1 ELSE IF a < 0 THEN -1 ELSE 0, den |-> 0]
    ELSE LET g == GCD(Abs(a), Abs(b))
             sign == IF b < 0 THEN -1 ELSE 1
         IN [num |-> sign * (a \div g), den |-> sign * (b \div g)]

\* let size = [this._width, this._height];
\* if (width && height) { size = [width, height]; }
resolveSize(t, width, height) ==
    IF TruthyNumber(width) /\ TruthyNumber(height)
    THEN <<width[1], height[1]>>
    ELSE <<_width[t], _height[t]>>

\* The uniforms draw hands to blendProgram.apply.
drawUniforms(t, opts) ==
    [iImage |-> 1,
     iSize |-> resolveSize(t, opts.width, opts.height),
     iOffset |-> <<JsDivide(OrDefault(opts.x, 0), _width[t]),
                   JsDivide(OrDefault(opts.y, 0), _height[t])>>,
     iOpacity |-> OrDefault(opts.opacity, 1)]

\* The registry key draw looks up: '~blend_' + mode.
blendProgramName(opts) == "~blend_" \o OrDefault(opts.mode, GlueBlendMode_NORMAL)

\* Mutant: a missing blend program falls back to the default program.
drawDispatchFallsBack(t, opts) ==
    LET blendProgram == GetProperty(_programs[t], blendProgramName(opts))
        fallback == GetProperty(_programs[t], "~default")
        chosen == IF Truthy(blendProgram) THEN blendProgram ELSE fallback
    IN IF chosen.kind # "own"
       THEN [err |-> "TypeError", dispatches |-> <<>>]
       ELSE [err |-> "none",
             dispatches |-> <<Dispatch(chosen.value,
                                       Some(drawUniforms(t, opts)), opts.mask)>>]

\* draw after this.use(): the program lookup, the check and the dispatch.
drawDispatch(t, opts) ==
    LET blendProgram == GetProperty(_programs[t], blendProgramName(opts)) IN
    IF ~Truthy(blendProgram)
    THEN [err |-> "InvalidBlendMode", dispatches |-> <<>>]
    ELSE IF blendProgram.kind = "inherited"
    THEN [err |-> "TypeError", dispatches |-> <<>>]
    ELSE [err |-> "none",
          dispatches |-> <<Dispatch(blendProgram.value,
                                    Some(drawUniforms(t, opts)), opts.mask)>>]

\* Mutant: draw does not bind its texture before it looks the program up.
drawBindMissing(g, t) == g

\* this.use() at the top of draw: activeTexture(TEXTURE1), bindTexture.
drawBind(g, t) == bindTexture(activeTexture(g, "TEXTURE1"), _texture[t])

Draw(t, opts) ==
    /\ constructed[t] = "live"
    /\ IF checkDisposed(t) # "none"
       THEN /\ last' = Call("draw", t, opts, checkDisposed(t), None, <<>>, <<>>)
            /\ UNCHANGED glVars
       ELSE LET g == drawBind(GL, t)
                r == drawDispatch(t, opts)
            IN /\ glActive' = g.active
               /\ glBound' = g.bound
               /\ UNCHANGED <<glTextures, glPixels>>
               /\ last' = Call("draw", t, opts, r.err, None, r.dispatches, <<>>)
    /\ UNCHANGED <<sources, programs, constructed, fieldVars, _programs,
                   _imports, userCalls>>

-----------------------------------------------------------------------------
(* update(source?)                                                         *)

\* The re-upload at the end of update: activeTexture, bindTexture, texImage2D.
updateUpload(g, h, s) ==
    texImage2D(bindTexture(activeTexture(g, "TEXTURE1"), h), s)

\* Mutant: the readiness check of a new source is missing.
updateErrorNoReadyCheck(t, o) ==
    IF checkDisposed(t) # "none" THEN checkDisposed(t)
    ELSE IF o = None THEN "none"
    ELSE glueGetSourceDimensions(o[1]).err

\* The error update throws before it changes anything, if any.
updateError(t, o) ==
    IF checkDisposed(t) # "none" THEN checkDisposed(t)
    ELSE IF o = None THEN "none"
    ELSE IF ~glueIsSourceLoaded(o) THEN "SourceNotReady"
    ELSE glueGetSourceDimensions(o[1]).err

\* Mutant: the dimensions are read from this._source before it is replaced.
updateDimensionsOfOldSource(t, o) ==
    IF o = None THEN <<_width[t], _height[t]>>
    ELSE glueGetSourceDimensions(_source[t]).dims

\* The stored dimensions after a successful update.
updateDimensions(t, o) ==
    IF o = None THEN <<_width[t], _height[t]>>
    ELSE glueGetSourceDimensions(o[1]).dims

Update(t, o) ==
    /\ constructed[t] = "live"
    /\ IF updateError(t, o) # "none"
       THEN /\ last' = Call("update", t, [source |-> o], updateError(t, o),
                            None, <<>>, <<>>)
            /\ UNCHANGED <<glVars, fieldVars>>
       ELSE LET s == OrDefault(o, _source[t])
                d == updateDimensions(t, o)
                b == bindTexture(activeTexture(GL, "TEXTURE1"), _texture[t])
                g == updateUpload(GL, _texture[t], s)
            IN /\ _source' = [_source EXCEPT ![t] = s]
               /\ _width' = [_width EXCEPT ![t] = d[1]]
               /\ _height' = [_height EXCEPT ![t] = d[2]]
               /\ glActive' = g.active
               /\ glBound' = g.bound
               /\ glTextures' = g.textures
               /\ glPixels' = g.pixels
               /\ last' = Call("update", t, [source |-> o], "none", None,
                               <<>>, <<UploadOf(b, s)>>)
               /\ UNCHANGED <<_disposed, _texture>>
    /\ UNCHANGED <<sources, programs, constructed, _programs, _imports, userCalls>>

-----------------------------------------------------------------------------
(* use(target?)                                                            *)

\* target || gl.TEXTURE1
useTarget(target) == IF target = None THEN "TEXTURE1" ELSE target[1]

Use(t, target) ==
    /\ constructed[t] = "live"
    /\ IF checkDisposed(t) # "none"
       THEN /\ last' = Call("use", t, [target |-> target], checkDisposed(t),
                            None, <<>>, <<>>)
            /\ UNCHANGED glVars
       ELSE LET g == bindTexture(activeTexture(GL, useTarget(target)), _texture[t])
            IN /\ glActive' = g.active
               /\ glBound' = g.bound
               /\ UNCHANGED <<glTextures, glPixels>>
               /\ last' = Call("use", t, [target |-> target], "none", None, <<>>, <<>>)
    /\ UNCHANGED <<sources, programs, constructed, fieldVars, _programs,
                   _imports, userCalls>>

-----------------------------------------------------------------------------
(* registerProgram, deregisterProgram, hasProgram, program                 *)

\* registerProgram(name, fragmentShader?, vertexShader?) on texture t.
registerProgram(t, name, fs, vs) ==
    registerProgramBody(
        [map |-> _programs[t], heap |-> programs, err |-> checkDisposed(t)],
        _imports[t], name, fs, vs)

RegisterProgram(t, name, fs, vs) ==
    /\ constructed[t] = "live"
    /\ userCalls < MaxUserCalls
    /\ LET r == registerProgram(t, name, fs, vs) IN
       /\ _programs' = [_programs EXCEPT ![t] = r.map]
       /\ programs' = r.heap
       /\ userCalls' = IF r.err = "none" THEN userCalls + 1 ELSE userCalls
       /\ last' = Call("registerProgram", t,
                       [name |-> name, fragmentShader |-> fs, vertexShader |-> vs],
                       r.err,
                       IF r.err = "none" THEN Some(r.map[name]) ELSE None,
                       <<>>, <<>>)
    /\ UNCHANGED <<sources, glVars, constructed, fieldVars, _imports>>

\* Mutant: the program is disposed but its entry is not deleted.
deregisterProgramKeepsEntry(t, name) ==
    LET v == GetProperty(_programs[t], name) IN
    IF checkDisposed(t) # "none"
    THEN [map |-> _programs[t], heap |-> programs, err |-> checkDisposed(t)]
    ELSE IF v.kind = "inherited"
    THEN [map |-> _programs[t], heap |-> programs, err |-> "TypeError"]
    ELSE [map |-> _programs[t],
          heap |-> IF v.kind = "own" THEN DisposeProgram(programs, v.value)
                   ELSE programs,
          err |-> "none"]

\* deregisterProgram(name): this._programs[name]?.dispose(); delete ...
deregisterProgram(t, name) ==
    LET v == GetProperty(_programs[t], name) IN
    IF checkDisposed(t) # "none"
    THEN [map |-> _programs[t], heap |-> programs, err |-> checkDisposed(t)]
    ELSE IF v.kind = "inherited"
    THEN [map |-> _programs[t], heap |-> programs, err |-> "TypeError"]
    ELSE [map |-> DeleteProperty(_programs[t], name),
          heap |-> IF v.kind = "own" THEN DisposeProgram(programs, v.value)
                   ELSE programs,
          err |-> "none"]

DeregisterProgram(t, name) ==
    /\ constructed[t] = "live"
    /\ LET r == deregisterProgram(t, name) IN
       /\ _programs' = [_programs EXCEPT ![t] = r.map]
       /\ programs' = r.heap
       /\ last' = Call("deregisterProgram", t, [name |-> name], r.err, None,
                       <<>>, <<>>)
    /\ UNCHANGED <<sources, glVars, constructed, fieldVars, _imports, userCalls>>

\* hasProgram(name): !!this._programs[name]
hasProgram(t, name) == Truthy(GetProperty(_programs[t], name))

HasProgram(t, name) ==
    /\ constructed[t] = "live"
    /\ last' = Call("hasProgram", t, [name |-> name], "none",
                    Some(hasProgram(t, name)), <<>>, <<>>)
    /\ UNCHANGED <<sources, glVars, programs, constructed, fieldVars,
                   _programs, _imports, userCalls>>

\* program(name): [err, value], value the looked-up property.
program(t, name) ==
    [err |-> checkDisposed(t), value |-> GetProperty(_programs[t], name)]

Program(t, name) ==
    /\ constructed[t] = "live"
    /\ LET r == program(t, name) IN
       last' = Call("program", t, [name |-> name], r.err,
                    IF r.err = "none" /\ r.value.kind = "own"
                    THEN Some(r.value.value) ELSE None,
                    <<>>, <<>>)
    /\ UNCHANGED <<sources, glVars, programs, constructed, fieldVars,
                   _programs, _imports, userCalls>>

-----------------------------------------------------------------------------
(* registerImport, deregisterImport                                        *)

\* Mutant: an import that is already registered is kept, as for programs.
registerImportKeepsFirst(t, name, source) ==
    IF checkDisposed(t) # "none"
    THEN [err |-> checkDisposed(t), imports |-> _imports[t]]
    ELSE IF name \in DOMAIN _imports[t]
    THEN [err |-> "none", imports |-> _imports[t]]
    ELSE [err |-> "none", imports |-> SetProperty(_imports[t], name, source)]

\* registerImport(name, source): this._imports[name] = source
registerImport(t, name, source) ==
    IF checkDisposed(t) # "none"
    THEN [err |-> checkDisposed(t), imports |-> _imports[t]]
    ELSE [err |-> "none", imports |-> SetProperty(_imports[t], name, source)]

RegisterImport(t, name, source) ==
    /\ constructed[t] = "live"
    /\ LET r == registerImport(t, name, source) IN
       /\ _imports' = [_imports EXCEPT ![t] = r.imports]
       /\ last' = Call("registerImport", t, [name |-> name, source |-> source],
                       r.err, None, <<>>, <<>>)
    /\ UNCHANGED <<sources, glVars, programs, constructed, fieldVars,
                   _programs, userCalls>>

\* deregisterImport(name): delete this._imports[name]
deregisterImport(t, name) ==
    IF checkDisposed(t) # "none"
    THEN [err |-> checkDisposed(t), imports |-> _imports[t]]
    ELSE [err |-> "none", imports |-> DeleteProperty(_imports[t], name)]

DeregisterImport(t, name) ==
    /\ constructed[t] = "live"
    /\ LET r == deregisterImport(t, name) IN
       /\ _imports' = [_imports EXCEPT ![t] = r.imports]
       /\ last' = Call("deregisterImport", t, [name |-> name], r.err, None,
                       <<>>, <<>>)
    /\ UNCHANGED <<sources, glVars, programs, constructed, fieldVars,
                   _programs, userCalls>>

-----------------------------------------------------------------------------
(* dispose()                                                               *)

\* Mutant: dispose() sets the flag.
disposedAfterDisposeSet(t) == TRUE

\* The value of this._disposed after dispose(): the method never assigns it.
disposedAfterDispose(t) == _disposed[t]

Dispose(t) ==
    /\ constructed[t] = "live"
    /\ LET g == deleteTexture(GL, _texture[t]) IN
       /\ glActive' = g.active
       /\ glBound' = g.bound
       /\ glTextures' = g.textures
       /\ glPixels' = g.pixels
    /\ _disposed' = [_disposed EXCEPT ![t] = disposedAfterDispose(t)]
    /\ last' = Call("dispose", t, [none |-> None], "none", None, <<>>, <<>>)
    /\ UNCHANGED <<sources, programs, constructed, _source, _width, _height,
                   _texture, _programs, _imports, userCalls>>

-----------------------------------------------------------------------------
(* Initial state                                                           *)

Init ==
    /\ sources \in [Sources -> UNION {SourceStates(s) : s \in Sources}]
    /\ \A s \in Sources : sources[s] \in SourceStates(s)
    /\ glActive = "TEXTURE0"
    /\ glBound = [u \in Units |-> 0]
    /\ glTextures = [h \in Handles |-> "free"]
    /\ glPixels = [h \in Handles |-> NoPixels]
    /\ programs = <<>>
    /\ constructed = [t \in Textures |-> "none"]
    /\ _source = [t \in Textures |-> "none"]
    /\ _width = [t \in Textures |-> 0]
    /\ _height = [t \in Textures |-> 0]
    /\ _disposed = [t \in Textures |-> FALSE]
    /\ _texture = [t \in Textures |-> 0]
    /\ _programs = [t \in Textures |-> EmptyObject]
    /\ _imports = [t \in Textures |-> EmptyObject]
    /\ userCalls = 0
    /\ last = Call("init", "", [none |-> None], "none", None, <<>>, <<>>)

\* Every source is ready: the image is loaded, the video has buffered.
InitLoaded ==
    /\ Init
    /\ \A s \in Sources : glueIsSourceLoaded(Some(s))
    /\ sources["cnv"].width > 0

-----------------------------------------------------------------------------
(* Inputs                                                                  *)

SourceArgs == {None} \cup {Some(s) : s \in Sources}

\* Names that begin with the reserved prefix "~".
ReservedNames == {"~" \o n : n \in {"default", "custom"}}
                 \cup {"~blend_" \o m : m \in {"normal", "multiply", "nonexistent"}}

\* A reserved name, an ordinary name, and a name that {} inherits.
ProgramNames == {"~custom", "effect", "toString"}

ShaderArgs == {<<Some("frag"), None>>, <<Some(""), Some("vert")>>}

ImportNames == {"foo"}
ImportSources == {"srcA", "srcB"}

UseTargets == {None, Some("TEXTURE2")}

DrawOptions(x, y, width, height, opacity, mode, mask) ==
    [x |-> x, y |-> y, width |-> width, height |-> height,
     opacity |-> opacity, mode |-> mode, mask |-> mask]

\* draw() and the documented example draw({x: 10, y: 20, mode: multiply}).
BasicDrawOptions == {
    DrawOptions(None, None, None, None, None, None, None),
    DrawOptions(Some(10), Some(20), None, None, Some(0), Some("multiply"), None) }

Offsets == {<<None, None>>, <<Some(10), Some(20)>>}
Sizes == {<<None, None>>, <<Some(30), None>>, <<Some(30), Some(50)>>,
          <<Some(0), Some(50)>>, <<Some(-1), Some(50)>>}
Modes == {None, Some("multiply"), Some("nonexistent")}
\* Opacity and mask: the defaults, a zero opacity, an opacity above 1.
OpacityMasks == {<<None, None>>, <<Some(0), Some("maskImport")>>, <<Some(2), None>>}

AllDrawOptions ==
    {DrawOptions(o[1], o[2], z[1], z[2], a[1], m, a[2]) :
        o \in Offsets, z \in Sizes, a \in OpacityMasks, m \in Modes}

-----------------------------------------------------------------------------
(* Specifications                                                          *)

\* Every public operation of texture t, with its inputs drawn from the sets.
Operations(t, srcArgs, drawOpts, targets, names, shaders, impSources) ==
    \/ \E o \in srcArgs : Construct(t, o)
    \/ \E opts \in drawOpts : Draw(t, opts)
    \/ \E o \in srcArgs : Update(t, o)
    \/ \E target \in targets : Use(t, target)
    \/ \E name \in names : \E sh \in shaders :
           RegisterProgram(t, name, sh[1], sh[2])
    \/ \E name \in names : DeregisterProgram(t, name)
    \/ \E name \in names : HasProgram(t, name)
    \/ \E name \in names : Program(t, name)
    \/ \E name \in ImportNames : \E source \in impSources :
           RegisterImport(t, name, source)
    \/ \E name \in ImportNames : DeregisterImport(t, name)
    \/ Dispose(t)

\* The life cycle of one GlueTexture whose sources load and change size.
Next ==
    \/ \E s \in Sources : \E d \in SourceStates(s) : SourceChange(s, d)
    \/ Operations("T1", SourceArgs, BasicDrawOptions, UseTargets,
                  {"effect"}, {<<None, None>>}, {"srcA"})

Spec == Init /\ [][Next]_vars

\* The program and import registry of one GlueTexture over ready sources.
NextRegistry ==
    Operations("T1", {None, Some("cnv")},
               {DrawOptions(None, None, None, None, None, Some("multiply"), None)},
               {None}, ProgramNames, ShaderArgs, ImportSources)

SpecRegistry == InitLoaded /\ [][NextRegistry]_vars

\* The draw calls of one GlueTexture over ready sources.
NextDraw ==
    Operations("T1", {Some("img"), Some("cnv")}, AllDrawOptions, {None},
               {"~blend_multiply"}, {<<None, None>>}, {"srcA"})

SpecDraw == InitLoaded /\ [][NextDraw]_vars

\* Two GlueTextures on one context: their construct, use, update, draw and
\* dispose calls in any order.
NextShared ==
    \E t \in Textures :
        \/ Construct(t, Some("cnv"))
        \/ \E opts \in BasicDrawOptions : Draw(t, opts)
        \/ \E o \in {None, Some("img")} : Update(t, o)
        \/ \E target \in UseTargets : Use(t, target)
        \/ Dispose(t)

SpecShared == InitLoaded /\ [][NextShared]_vars

-----------------------------------------------------------------------------
(* Properties                                                              *)

\* The operations that begin with checkDisposed(), directly or through use().
GuardedOps == {"update", "registerProgram", "use", "program", "draw",
               "deregisterProgram", "registerImport", "deregisterImport"}

\* dispose() has been called on t: only dispose deletes t's GPU texture.
DisposeCalled(t) ==
    constructed[t] = "live" /\ glTextures[_texture[t]] = "deleted"

\* C1: after dispose() has been called on a Texture, every later call of
\* update, registerProgram, use, program, draw, deregisterProgram,
\* registerImport or deregisterImport on it fails with Disposed.
C1_CallsAfterDisposeFail ==
    (last.op \in GuardedOps /\ DisposeCalled(last.t)) => last.err = "Disposed"

\* C2: right after a successful construction the registry holds the default
\* program, one program per blend mode, and nothing else.
C2_ConstructorRegistersBlendPrograms ==
    (last.op = "new" /\ last.err = "none") =>
        /\ hasProgram(last.t, "~default")
        /\ \A i \in 1 .. Len(GlueBlendMode) :
               hasProgram(last.t, "~blend_" \o GlueBlendMode[i])
        /\ Cardinality(DOMAIN _programs[last.t]) = Len(GlueBlendMode) + 1

C2_Witness ==
    /\ last.op = "new" /\ last.err = "none"
    /\ hasProgram(last.t, "~blend_multiply")

\* C3: registerProgram with a name that is already in the registry of a
\* non-disposed texture fails with DuplicateName, builds no program and
\* leaves the registry as it was: the name still maps to the first program.
C3_DuplicateNameRejected ==
    [][(/\ last'.op = "registerProgram"
        /\ ~_disposed[last'.t]
        /\ last'.args.name \in DOMAIN _programs[last'.t])
       => (/\ last'.err = "DuplicateName"
           /\ programs' = programs
           /\ _programs' = _programs
           /\ _programs'[last'.t][last'.args.name]
                  = _programs[last'.t][last'.args.name])]_vars

C3_Witness ==
    /\ last.op = "registerProgram"
    /\ last.err = "DuplicateName"
    /\ last.args.name \in DOMAIN _programs[last.t]

\* C4: update(newSource) with a source that is not ready fails with
\* SourceNotReady, issues no pixel upload and leaves the stored width,
\* height and source as they were.
C4_UpdateNotReadyChangesNothing ==
    [][(/\ last'.op = "update"
        /\ last'.args.source # None
        /\ ~glueIsSourceLoaded(last'.args.source))
       => (/\ last'.err = "SourceNotReady"
           /\ last'.uploads = <<>>
           /\ glPixels' = glPixels
           /\ _width' = _width
           /\ _height' = _height
           /\ _source' = _source)]_vars

C4_Witness ==
    /\ last.op = "update"
    /\ last.err = "SourceNotReady"
    /\ last.args.source # None
    /\ _source[last.t] # last.args.source[1]

\* q is the quotient a / b: exact for b # 0, an infinity or NaN for b = 0.
IsQuotient(q, a, b) ==
    IF b = 0 THEN q.den = 0 ELSE q.den # 0 /\ q.num * b = a * q.den

\* C5: a draw that succeeds dispatches the program registered under
\* "~blend_" + mode (mode defaulting to normal) exactly once, with image unit
\* 1, the offset (x / width, y / height) taken over the stored dimensions,
\* the explicit size if width and height are both given and the stored size
\* otherwise, the given opacity (default 1) and the given mask.
C5_DrawDispatchesBlendProgram ==
    (last.op = "draw" /\ last.err = "none") =>
        LET t == last.t
            o == last.args
            u == last.dispatches[1].uniforms[1]
        IN /\ Len(last.dispatches) = 1
           /\ last.dispatches[1].program =
                  _programs[t]["~blend_" \o (IF o.mode = None THEN "normal"
                                             ELSE o.mode[1])]
           /\ u.iImage = 1
           /\ IsQuotient(u.iOffset[1], IF o.x = None THEN 0 ELSE o.x[1], _width[t])
           /\ IsQuotient(u.iOffset[2], IF o.y = None THEN 0 ELSE o.y[1], _height[t])
           /\ u.iSize = (IF o.width # None /\ o.height # None
                         THEN <<o.width[1], o.height[1]>>
                         ELSE <<_width[t], _height[t]>>)
           /\ u.iOpacity = (IF o.opacity = None THEN 1 ELSE o.opacity[1])
           /\ last.dispatches[1].mask = o.mask

\* C6: draw with a mode whose name "~blend_" + mode is not in the registry
\* fails with InvalidBlendMode and dispatches no program.
C6_MissingBlendProgramFails ==
    (/\ last.op = "draw"
     /\ ("~blend_" \o (IF last.args.mode = None THEN "normal"
                       ELSE last.args.mode[1])) \notin DOMAIN _programs[last.t])
    => (last.err = "InvalidBlendMode" /\ last.dispatches = <<>>)

C6_Witness ==
    /\ last.op = "draw"
    /\ last.args.mode = Some("multiply")
    /\ "~blend_multiply" \notin DOMAIN _programs[last.t]
    /\ last.err = "InvalidBlendMode"

\* C7: registerImport never fails and makes its source the only fragment
\* under the name; a program is built with the import table of the moment of
\* its registration, and no later registerImport or deregisterImport changes
\* the import table of a program that is already built.
C7_ImportsAffectOnlyLaterPrograms ==
    [][/\ (last'.op = "registerImport" =>
              /\ last'.err = "none"
              /\ _imports'[last'.t][last'.args.name] = last'.args.source)
       /\ (last'.op \in {"registerImport", "deregisterImport"} =>
              /\ Len(programs') = Len(programs)
              /\ \A p \in 1 .. Len(programs) :
                     programs'[p].imports = programs[p].imports)
       /\ ((last'.op = "registerProgram" /\ last'.err = "none") =>
              programs'[last'.result[1]].imports = _imports'[last'.t])]_vars

\* A program built while "foo" was srcA, after "foo" was replaced by srcB.
C7_Witness ==
    /\ last.op = "registerImport"
    /\ last.args.source = "srcB"
    /\ _imports[last.t]["foo"] = "srcB"
    /\ \E p \in 1 .. Len(programs) :
           /\ "foo" \in DOMAIN programs[p].imports
           /\ programs[p].imports["foo"] = "srcA"

\* C8: the stored width and height are the dimensions the source had at the
\* most recent pixel upload into the texture.
C8_DimensionsMatchLastUpload ==
    \A t \in Textures :
        (constructed[t] = "live" /\ glPixels[_texture[t]] # NoPixels) =>
            <<_width[t], _height[t]>> = glPixels[_texture[t]].size

\* C9: a texture whose disposed flag is false owns one live GPU texture.
C9_NonDisposedOwnsLiveTexture ==
    \A t \in Textures :
        (constructed[t] = "live" /\ ~_disposed[t]) =>
            (_texture[t] \in Handles /\ glTextures[_texture[t]] = "live")

\* C10: a caller's registerProgram never creates or replaces a registry entry
\* whose name begins with the reserved prefix "~".
C10_ReservedNamesNotRegistrable ==
    [][(last'.op = "registerProgram" /\ last'.args.name \in ReservedNames)
       => (last'.err # "none" /\ _programs' = _programs)]_vars

\* C11: deregisterProgram with a name that is not in the registry does not
\* fail, disposes no program and changes nothing of the texture, however
\* often it is called.
C11_DeregisterAbsentIsNoOp ==
    [][(/\ last'.op = "deregisterProgram"
        /\ last'.args.name \notin DOMAIN _programs[last'.t])
       => (/\ last'.err = "none"
           /\ programs' = programs
           /\ _programs' = _programs
           /\ _imports' = _imports
           /\ UNCHANGED <<glVars, fieldVars>>)]_vars

\* C12: constructing a Texture from a source that is not ready fails with
\* SourceNotReady before a GPU texture is allocated, pixels are uploaded or
\* a program is registered.
C12_ConstructNotReadyTouchesNothing ==
    [][(last'.op = "new" /\ ~glueIsSourceLoaded(last'.args.source))
       => (/\ last'.err = "SourceNotReady"
           /\ last'.uploads = <<>>
           /\ last'.dispatches = <<>>
           /\ programs' = programs
           /\ _programs' = _programs
           /\ UNCHANGED glVars)]_vars

C12_Witness ==
    /\ last.op = "new"
    /\ last.err = "SourceNotReady"
    /\ last.args.source # None
    /\ \A h \in Handles : glTextures[h] = "free"

\* C13: update(source) called twice in a row with the same ready source,
\* whose own dimensions do not change in between, leaves the stored width,
\* height and source after the second call as they were after the first.
C13_UpdateSameSourceIdempotent ==
    [][(/\ last.op = "update" /\ last.err = "none"
        /\ last.args.source # None
        /\ last'.op = "update" /\ last'.err = "none"
        /\ last'.t = last.t
        /\ last'.args.source = last.args.source
        /\ sources' = sources)
       => (/\ _width' = _width
           /\ _height' = _height
           /\ _source' = _source)]_vars

\* A second update(canvas) after the texture was moved from another source.
C13_Witness ==
    /\ last.op = "update" /\ last.err = "none"
    /\ last.args.source = Some("cnv")
    /\ _source[last.t] = "cnv"
    /\ _texture[last.t] \in Handles
    /\ glPixels[_texture[last.t]].source = "cnv"
    /\ <<_width[last.t], _height[last.t]>> = <<0, 50>>

\* C14: whenever both width and height are given to draw, the size uniform is
\* exactly that pair, also when one of them is zero or negative.
C14_ExplicitSizePassedThrough ==
    (/\ last.op = "draw" /\ last.err = "none"
     /\ last.args.width # None /\ last.args.height # None)
    => last.dispatches[1].uniforms[1].iSize
           = <<last.args.width[1], last.args.height[1]>>

\* The failures the design names.
ErrorKinds == {"SourceNotReady", "UnsupportedSourceType", "DuplicateName",
               "InvalidBlendMode", "Disposed"}

\* C15: a construction or operation that fails allocates and releases no GPU
\* resource and leaves the program registry, the import table and the stored
\* dimensions and source as they were.
C15_FailedCallsHaveNoEffect ==
    [][(last'.err \in ErrorKinds)
       => (/\ glTextures' = glTextures
           /\ programs' = programs
           /\ _programs' = _programs
           /\ _imports' = _imports
           /\ _width' = _width
           /\ _height' = _height
           /\ _source' = _source)]_vars

\* C16: deregisterProgram with a registered name disposes that program and
\* no other, removes that entry and no other, and leaves the import table
\* alone; a registered name cannot be registered again; and a registerProgram
\* that follows a deregisterProgram of the same name succeeds with a new
\* program, different from every program built before.
C16_DeregisterThenRegister ==
    [][/\ (/\ last'.op = "deregisterProgram"
           /\ last'.args.name \in DOMAIN _programs[last'.t])
          => LET t == last'.t
                 n == last'.args.name
                 p == _programs[t][n]
             IN /\ last'.err = "none"
                /\ ~programs[p].disposed /\ programs'[p].disposed
                /\ Len(programs') = Len(programs)
                /\ \A q \in (1 .. Len(programs)) \ {p} : programs'[q] = programs[q]
                /\ DOMAIN _programs'[t] = DOMAIN _programs[t] \ {n}
                /\ ~Truthy(GetProperty(_programs'[t], n))
                /\ GetProperty(_programs'[t], n).kind = "undefined"
                /\ \A m \in DOMAIN _programs'[t] : _programs'[t][m] = _programs[t][m]
                /\ _imports' = _imports
       /\ (/\ last'.op = "registerProgram"
           /\ last'.args.name \in DOMAIN _programs[last'.t])
          => (last'.err = "DuplicateName" /\ _programs' = _programs)
       /\ (/\ last.op = "deregisterProgram" /\ last.err = "none"
           /\ last'.op = "registerProgram"
           /\ last'.t = last.t
           /\ last'.args.name = last.args.name)
          => (/\ last'.err = "none"
              /\ last'.result[1] \notin 1 .. Len(programs)
              /\ _programs'[last'.t][last'.args.name] = last'.result[1]
              /\ ~programs'[last'.result[1]].disposed)]_vars

\* "effect" registered again, after its first program was disposed.
C16_Witness ==
    /\ last.op = "registerProgram" /\ last.err = "none"
    /\ last.args.name = "effect"
    /\ \E p \in 1 .. Len(programs) :
           /\ p # last.result[1]
           /\ programs[p].disposed
           /\ programs[p].fragmentShader = programs[last.result[1]].fragmentShader
           /\ programs[p].vertexShader = programs[last.result[1]].vertexShader
    /\ \A p \in 1 .. Len(programs) : programs[p].disposed => p > Len(GlueBlendMode) + 1
    /\ "~custom" \notin DOMAIN _programs[last.t]

C17_DrawSamplesOwnTexture ==
    (/\ last.op = "draw"
     /\ last.dispatches # <<>>
     /\ ~DisposeCalled(last.t))
    => (/\ glActive = "TEXTURE1"
        /\ glBound["TEXTURE1"] = _texture[last.t]
        /\ glTextures[_texture[last.t]] = "live")

\* A draw of the first Texture while the second one, constructed after it,
\* is alive: the second Texture's calls had bound unit 1 to its own texture.
C17_Witness ==
    /\ last.op = "draw"
    /\ last.dispatches # <<>>
    /\ \E u \in Textures \ {last.t} :
           /\ constructed[u] = "live"
           /\ glTextures[_texture[u]] = "live"
           /\ _texture[u] > _texture[last.t]
    /\ glBound["TEXTURE1"] = _texture[last.t]

\* C19: every successful update() of a Texture, with or without a new
\* source, writes the pixels of the Texture's source into the Texture's own
\* GPU texture and into no other, and leaves its program registry and
\* import table as they were.
C19_UpdateUploadsIntoOwnTexture ==
    [][(last'.op = "update" /\ last'.err = "none")
       => LET t == last'.t IN
          /\ Len(last'.uploads) = 1
          /\ last'.uploads[1].texture = _texture[t]
          /\ last'.uploads[1].source = _source'[t]
          /\ glPixels'[_texture[t]].source = _source'[t]
          /\ \A h \in Handles \ {_texture[t]} : glPixels'[h] = glPixels[h]
          /\ programs' = programs
          /\ _programs' = _programs
          /\ _imports' = _imports]_vars

====
